---- MODULE Spec2Model ----
(***************************************************************************)
(* AIngest: the `run` command, Bundler.BuildBundle and the classifier of   *)
(* internal/bundler/bundler.go, over a small filesystem.                   *)
(*                                                                         *)
(* Strings that the code takes apart (paths, names, extensions) are        *)
(* sequences of one-character strings; a text that is only ever compared   *)
(* (a MIME type, a category, a format identifier) is a TLA+ string.        *)
(* A Go slice is [isNil, elems], a Go pointer a record with isNil.         *)
(* Timestamps (ModTime, time.Now) are left out: no operation reads them.   *)
(***************************************************************************)
EXTENDS Integers, Sequences, FiniteSets, TLC

VARIABLES fs, pc, rootPath, recursive, format, stack, files, err, bundle,
          output, cpath, cmime, ctype

\* The state of a run of the command.
rvars == <<fs, pc, rootPath, recursive, format, stack, files, err, bundle,
           output>>

\* A path handed to the classifier and what the classifier said of it.
cvars == <<cpath, cmime, ctype>>

vars == <<rvars, cvars>>

(* ---------------------------- bounds ----------------------------------- *)

\* Number of entries the filesystem may hold.
MaxEntries == 3

(* ------------------------- strings and paths --------------------------- *)

\* Byte values of the characters that occur in the modelled names.
Ascii ==
    ("." :> 46) @@ ("/" :> 47) @@ ("D" :> 68) @@ ("M" :> 77) @@
    ("a" :> 97) @@ ("b" :> 98) @@ ("d" :> 100) @@ ("i" :> 105) @@
    ("m" :> 109) @@ ("n" :> 110) @@ ("s" :> 115) @@ ("u" :> 117)

\* Names an entry of a directory may have.
Names ==
    { <<"a", ".", "m", "d">>,
      <<"b", ".", "b", "i", "n">>,
      <<"s", "u", "b">> }

\* What a regular file may hold: its size in bytes and its number of
\* whitespace-delimited words.
Contents == { [size |-> 10, words |-> 0], [size |-> 1200, words |-> 200] }

\* Permissions of a directory: "ok", "noread" (it cannot be listed),
\* "nosearch" (it can be listed, its entries cannot be stat'ed).
DirModes == {"ok", "noread", "nosearch"}

\* The values of --format the model draws: the default and an identifier
\* that names no formatter.
Formats == {"json", "yaml"}

\* Byte-wise order of strings, the order of sort.Strings.
RECURSIVE StrLess(_, _)
StrLess(a, b) ==
    IF b = <<>> THEN FALSE
    ELSE IF a = <<>> THEN TRUE
    ELSE IF Ascii[a[1]] < Ascii[b[1]] THEN TRUE
    ELSE IF Ascii[a[1]] > Ascii[b[1]] THEN FALSE
    ELSE StrLess(Tail(a), Tail(b))

\* sort.Strings over a set of names.
RECURSIVE SortStrings(_)
SortStrings(S) ==
    IF S = {} THEN <<>>
    ELSE LET m == CHOOSE x \in S : \A y \in S \ {x} : StrLess(x, y)
         IN  <<m>> \o SortStrings(S \ {m})

\* filepath.Join of a directory and a name; an empty element is ignored.
Join(dir, name) == IF dir = <<>> THEN name ELSE dir \o <<"/">> \o name

\* filepath.Ext: the suffix that starts at the last dot of the last element.
RECURSIVE ExtFrom(_, _)
ExtFrom(path, i) ==
    IF i < 1 THEN <<>>
    ELSE IF path[i] = "/" THEN <<>>
    ELSE IF path[i] = "." THEN SubSeq(path, i, Len(path))
    ELSE ExtFrom(path, i - 1)

Ext(path) == ExtFrom(path, Len(path))

\* filepath.Base: the last element of a path (os.FileInfo.Name).
RECURSIVE BaseFrom(_, _)
BaseFrom(path, i) ==
    IF i < 1 THEN path
    ELSE IF path[i] = "/" THEN SubSeq(path, i + 1, Len(path))
    ELSE BaseFrom(path, i - 1)

Base(path) == BaseFrom(path, Len(path))

\* filepath.Dir of a relative path: everything before the last separator.
RECURSIVE DirFrom(_, _)
DirFrom(path, i) ==
    IF i < 1 THEN <<>>
    ELSE IF path[i] = "/" THEN SubSeq(path, 1, i - 1)
    ELSE DirFrom(path, i - 1)

Dir(path) == DirFrom(path, Len(path))

\* filepath.Rel(base, targ) for a target that is base or lies below it.
Rel(base, targ) ==
    IF targ = base THEN <<".">>
    ELSE SubSeq(targ, Len(base) + 2, Len(targ))

(* ----------------------------- filesystem ------------------------------ *)

Exists(p) == \E e \in fs : e.path = p

Entry(p) == CHOOSE e \in fs : e.path = p

IsDir(p) == Exists(p) /\ Entry(p).kind = "dir"

\* os.Lstat succeeds on a path that exists and whose ancestors can all be
\* searched.
RECURSIVE Searchable(_)
Searchable(d) ==
    \/ d = <<>>
    \/ /\ IsDir(d)
       /\ Entry(d).mode # "nosearch"
       /\ Searchable(Dir(d))

LstatOK(p) == Exists(p) /\ Searchable(Dir(p))

\* readDirNames: open the directory and list it, sorted.
ReadDirOK(p) == Entry(p).mode # "noread"

readDirNames(p) == SortStrings({n \in Names : Exists(Join(p, n))})

(* ------------------------------ classifier ----------------------------- *)

detectMIME(path) ==
    LET ext == Ext(path) IN
    CASE ext = <<".", "m", "d">> -> "text/markdown"
      [] ext = <<".", "t", "x", "t">> -> "text/plain"
      [] ext = <<".", "j", "s", "o", "n">> -> "application/json"
      [] ext = <<".", "g", "o">> -> "text/x-go"
      [] ext = <<".", "r", "t", "f">> -> "application/rtf"
      [] OTHER -> "application/octet-stream"

classifyType(ext) ==
    CASE ext \in { <<".", "g", "o">>, <<".", "j", "s">>, <<".", "t", "s">>,
                   <<".", "p", "y">>, <<".", "c", "s">>,
                   <<".", "j", "a", "v", "a">> } -> "code"
      [] ext \in { <<".", "j", "s", "o", "n">>, <<".", "y", "a", "m", "l">>,
                   <<".", "y", "m", "l">>, <<".", "t", "o", "m", "l">>,
                   <<".", "p", "l", "i", "s", "t">>,
                   <<".", "c", "s", "v">> } -> "data"
      [] ext \in { <<".", "m", "d">>, <<".", "t", "x", "t">>,
                   <<".", "r", "t", "f">> } -> "text"
      [] OTHER -> "binary"

(* ------------------------------- schema -------------------------------- *)

NilSlice == [isNil |-> TRUE, elems |-> <<>>]

\* append(s, x): the result is never the nil slice.
SliceAppend(s, x) == [isNil |-> FALSE, elems |-> Append(s.elems, x)]

NilDocument == [isNil |-> TRUE, Sections |-> <<>>]

NilErr == [isNil |-> TRUE, path |-> <<>>]

PathError(p) == [isNil |-> FALSE, path |-> p]

\* The FileBundle literal of the walk callback.
FileBundle(path, info) ==
    [ Path         |-> path,
      RelativePath |-> Rel(rootPath, path),
      Name         |-> Base(path),
      Extension    |-> Ext(path),
      MIMEType     |-> detectMIME(path),
      FileType     |-> classifyType(Ext(path)),
      SizeBytes    |-> info.size,
      TokenCount   |-> 0,
      Document     |-> NilDocument ]

RECURSIVE SumSizes(_)
SumSizes(s) == IF s = <<>> THEN 0 ELSE s[1].SizeBytes + SumSizes(Tail(s))

\* SummaryInfo with `totalSize = f.SizeBytes` for `totalSize += f.SizeBytes`.
SummaryInfoLastSize(fl) ==
    [ TotalFiles    |-> Len(fl.elems),
      TotalTokens   |-> 0,
      TotalSize     |-> IF fl.elems = <<>> THEN 0
                        ELSE fl.elems[Len(fl.elems)].SizeBytes,
      AvgTokens     |-> 0,
      LargestFile   |-> <<>>,
      LargestTokens |-> 0 ]

\* The SummaryInfo literal: the fields it does not name keep their zero value.
SummaryInfo(fl) ==
    [ TotalFiles    |-> Len(fl.elems),
      TotalTokens   |-> 0,
      TotalSize     |-> SumSizes(fl.elems),
      AvgTokens     |-> 0,
      LargestFile   |-> <<>>,
      LargestTokens |-> 0 ]

NilBundle ==
    [ isNil |-> TRUE, Version |-> "", SourceDir |-> <<>>, Files |-> NilSlice,
      Summary |-> SummaryInfo(NilSlice), Generator |-> "", Description |-> "" ]

Bundle(fl) ==
    [ isNil       |-> FALSE,
      Version     |-> "1.0",
      SourceDir   |-> rootPath,
      Files       |-> fl,
      Summary     |-> SummaryInfo(fl),
      Generator   |-> "aingest v0.1.0",
      Description |-> "Generated bundle (metadata only)" ]

NoOutput == [written |-> FALSE, encoding |-> "", filesNull |-> FALSE,
             files |-> <<>>, summary |-> SummaryInfo(NilSlice)]

\* json.MarshalIndent of a Bundle: a nil slice is encoded as null, the
\* omitempty fields of a record (all empty here) are dropped.
MarshalIndent(b) ==
    [ written   |-> TRUE,
      encoding  |-> "json",
      filesNull |-> b.Files.isNil,
      files     |-> [i \in 1..Len(b.Files.elems) |->
                       [ path          |-> b.Files.elems[i].Path,
                         relative_path |-> b.Files.elems[i].RelativePath,
                         mime_type     |-> b.Files.elems[i].MIMEType,
                         file_type     |-> b.Files.elems[i].FileType,
                         size_bytes    |-> b.Files.elems[i].SizeBytes,
                         token_count   |-> b.Files.elems[i].TokenCount ]],
      summary   |-> b.Summary ]

(* ------------------------------ behaviour ------------------------------ *)

Init ==
    /\ fs = {}
    /\ pc = "idle"
    /\ rootPath = <<>>
    /\ recursive = FALSE
    /\ format = "json"
    /\ stack = <<>>
    /\ files = NilSlice
    /\ err = NilErr
    /\ bundle = NilBundle
    /\ output = NoOutput
    /\ cpath = <<>>
    /\ cmime = ""
    /\ ctype = ""

\* The directories a new entry can be made in: the working directory and
\* every directory of the tree.
Parents == { <<>> } \cup { e.path : e \in { x \in fs : x.kind = "dir" } }

\* The environment writes a regular file before the command runs.
CreateFile ==
    /\ pc = "idle"
    /\ Cardinality(fs) < MaxEntries
    /\ \E d \in Parents, n \in Names, c \in Contents :
         /\ ~Exists(Join(d, n))
         /\ fs' = fs \cup { [path |-> Join(d, n), kind |-> "file",
                             mode |-> "ok", size |-> c.size,
                             words |-> c.words] }
    /\ UNCHANGED <<pc, rootPath, recursive, format, stack, files, err,
                   bundle, output, cvars>>

\* The environment makes a directory before the command runs.
Mkdir ==
    /\ pc = "idle"
    /\ Cardinality(fs) < MaxEntries
    /\ \E d \in Parents, n \in Names, m \in DirModes :
         /\ ~Exists(Join(d, n))
         /\ fs' = fs \cup { [path |-> Join(d, n), kind |-> "dir",
                             mode |-> m, size |-> 0, words |-> 0] }
    /\ UNCHANGED <<pc, rootPath, recursive, format, stack, files, err,
                   bundle, output, cvars>>

\* `aingest run root [-r] [-f format]`: the flags are parsed and
\* NewBundler(root, recursive) is built.
Run ==
    /\ pc = "idle"
    /\ \E root \in Names \cup { e.path : e \in fs },
          r \in BOOLEAN, f \in Formats :
         /\ rootPath' = root
         /\ recursive' = r
         /\ format' = f
    /\ pc' = "start"
    /\ UNCHANGED <<fs, stack, files, err, bundle, output, cvars>>

\* walk whose callback never returns SkipDir: the Recursive flag is ignored.
walkNoSkipDir(path, rest) ==
    LET info == Entry(path) IN
    IF info.kind # "dir"
    THEN /\ files' = SliceAppend(files, FileBundle(path, info))
         /\ stack' = rest
         /\ pc' = "walking"
         /\ err' = err
    ELSE IF ~ReadDirOK(path)
    THEN /\ err' = PathError(path)
         /\ pc' = "failed"
         /\ stack' = <<>>
         /\ files' = files
    ELSE /\ stack' = <<[dir |-> path, names |-> readDirNames(path)]>> \o rest
         /\ pc' = "walking"
         /\ UNCHANGED <<files, err>>

\* walk whose callback returns nil for an error: a directory that cannot be
\* listed is passed over.
walkIgnoreErr(path, rest) ==
    LET info == Entry(path) IN
    IF info.kind # "dir"
    THEN /\ files' = SliceAppend(files, FileBundle(path, info))
         /\ stack' = rest
         /\ pc' = "walking"
         /\ err' = err
    ELSE IF ~ReadDirOK(path)
    THEN /\ stack' = rest
         /\ pc' = "walking"
         /\ UNCHANGED <<files, err>>
    ELSE IF ~recursive /\ path # rootPath
    THEN /\ stack' = rest
         /\ pc' = "walking"
         /\ UNCHANGED <<files, err>>
    ELSE /\ stack' = <<[dir |-> path, names |-> readDirNames(path)]>> \o rest
         /\ pc' = "walking"
         /\ UNCHANGED <<files, err>>

\* walk whose callback falls through after a directory it descends into:
\* the directory gets a record of its own.
walkRecordsDirs(path, rest) ==
    LET info == Entry(path) IN
    IF info.kind # "dir"
    THEN /\ files' = SliceAppend(files, FileBundle(path, info))
         /\ stack' = rest
         /\ pc' = "walking"
         /\ err' = err
    ELSE IF ~ReadDirOK(path)
    THEN /\ err' = PathError(path)
         /\ pc' = "failed"
         /\ stack' = <<>>
         /\ files' = files
    ELSE IF ~recursive /\ path # rootPath
    THEN /\ stack' = rest
         /\ pc' = "walking"
         /\ UNCHANGED <<files, err>>
    ELSE /\ files' = SliceAppend(files, FileBundle(path, info))
         /\ stack' = <<[dir |-> path, names |-> readDirNames(path)]>> \o rest
         /\ pc' = "walking"
         /\ err' = err

\* filepath.walk(path, info, fn) up to the loop over the names, with the
\* callback of BuildBundle inlined; rest is the stack of the caller.
walk(path, rest) ==
    LET info == Entry(path) IN
    IF info.kind # "dir"
    THEN /\ files' = SliceAppend(files, FileBundle(path, info))
         /\ stack' = rest
         /\ pc' = "walking"
         /\ err' = err
    ELSE IF ~ReadDirOK(path)
    THEN /\ err' = PathError(path)
         /\ pc' = "failed"
         /\ stack' = <<>>
         /\ files' = files
    ELSE IF ~recursive /\ path # rootPath
    THEN /\ stack' = rest
         /\ pc' = "walking"
         /\ UNCHANGED <<files, err>>
    ELSE /\ stack' = <<[dir |-> path, names |-> readDirNames(path)]>> \o rest
         /\ pc' = "walking"
         /\ UNCHANGED <<files, err>>

\* filepath.Walk: Lstat of the root, then walk.
WalkRoot ==
    /\ pc = "start"
    /\ IF ~LstatOK(rootPath)
       THEN /\ err' = PathError(rootPath)
            /\ pc' = "failed"
            /\ UNCHANGED <<stack, files>>
       ELSE walk(rootPath, <<>>)
    /\ UNCHANGED <<fs, rootPath, recursive, format, bundle, output, cvars>>

\* One turn of the loop over the names of the directory on top of the stack.
WalkEntry ==
    /\ pc = "walking"
    /\ stack # <<>>
    /\ Head(stack).names # <<>>
    /\ LET top      == Head(stack)
           filename == Join(top.dir, Head(top.names))
           rest     == <<[top EXCEPT !.names = Tail(top.names)]>>
                         \o Tail(stack)
       IN  IF ~LstatOK(filename)
           THEN /\ err' = PathError(filename)
                /\ pc' = "failed"
                /\ stack' = <<>>
                /\ files' = files
           ELSE walk(filename, rest)
    /\ UNCHANGED <<fs, rootPath, recursive, format, bundle, output, cvars>>

\* The loop over the names of a directory ends: walk returns nil.
WalkReturn ==
    /\ pc = "walking"
    /\ stack # <<>>
    /\ Head(stack).names = <<>>
    /\ stack' = Tail(stack)
    /\ UNCHANGED <<fs, pc, rootPath, recursive, format, files, err, bundle,
                   output, cvars>>

\* filepath.Walk returned nil: BuildBundle builds the summary and returns
\* the bundle.
Finalize ==
    /\ pc = "walking"
    /\ stack = <<>>
    /\ bundle' = Bundle(files)
    /\ pc' = "done"
    /\ UNCHANGED <<fs, rootPath, recursive, format, stack, files, err,
                   output, cvars>>

\* BuildBundle returned a bundle: the command encodes it and writes the
\* output file, or exits when the file cannot be written.
WriteOutput ==
    /\ pc = "done"
    /\ \E ok \in BOOLEAN :
         IF ok
         THEN output' = MarshalIndent(bundle) /\ pc' = "written"
         ELSE output' = output /\ pc' = "exit1"
    /\ UNCHANGED <<fs, rootPath, recursive, format, stack, files, err,
                   bundle, cvars>>

\* BuildBundle returned an error: the command prints it and exits.
ExitOnError ==
    /\ pc = "failed"
    /\ pc' = "exit1"
    /\ UNCHANGED <<fs, rootPath, recursive, format, stack, files, err,
                   bundle, output, cvars>>

Next ==
    \/ CreateFile
    \/ Mkdir
    \/ Run
    \/ WalkRoot
    \/ WalkEntry
    \/ WalkReturn
    \/ Finalize
    \/ WriteOutput
    \/ ExitOnError

Spec == Init /\ [][Next]_vars

(* --------------------- the classifier on its own ----------------------- *)

\* Length of the paths handed to the classifier.
MaxPathLen == 3

\* Characters of the paths handed to the classifier.
ClassifyChars == {".", "/", "m", "d", "M", "D"}

RECURSIVE SeqsUpTo(_)
SeqsUpTo(n) ==
    IF n = 0 THEN { <<>> }
    ELSE LET shorter == SeqsUpTo(n - 1)
         IN  shorter \cup { Append(s, c) : s \in shorter, c \in ClassifyChars }

ClassifyInputs == SeqsUpTo(MaxPathLen) \ { <<>> }

InitClassify ==
    /\ fs = {}
    /\ pc = "idle"
    /\ rootPath = <<>>
    /\ recursive = FALSE
    /\ format = "json"
    /\ stack = <<>>
    /\ files = NilSlice
    /\ err = NilErr
    /\ bundle = NilBundle
    /\ output = NoOutput
    /\ cpath \in ClassifyInputs
    /\ cmime = ""
    /\ ctype = ""

\* The two calls of the walk callback that classify a path.
Classify ==
    /\ cmime = ""
    /\ cmime' = detectMIME(cpath)
    /\ ctype' = classifyType(Ext(cpath))
    /\ UNCHANGED <<cpath, rvars>>

NextClassify == Classify

SpecClassify == InitClassify /\ [][NextClassify]_vars

(* ------------------------------ properties ----------------------------- *)

TypeOK ==
    /\ pc \in {"idle", "start", "walking", "done", "failed", "written",
               "exit1"}
    /\ recursive \in BOOLEAN
    /\ format \in Formats
    /\ Cardinality(fs) <= MaxEntries

\* BuildBundle has returned, with a bundle or with an error.
Returned == pc \in {"done", "failed", "written", "exit1"}

\* BuildBundle has returned a bundle.
HasBundle == ~bundle.isNil

RootIsDir == IsDir(rootPath)

\* The sum of the sizes of the first n records, taken from the last one down.
RECURSIVE SizeOfFirst(_, _)
SizeOfFirst(s, n) ==
    IF n = 0 THEN 0 ELSE SizeOfFirst(s, n - 1) + s[n].SizeBytes

\* C1: in every bundle BuildBundle returns, Summary.TotalFiles is the number
\* of records of Files and Summary.TotalSize is the sum of their SizeBytes.
SummaryMatchesFiles ==
    HasBundle =>
        /\ bundle.Summary.TotalFiles = Len(bundle.Files.elems)
        /\ bundle.Summary.TotalSize
             = SizeOfFirst(bundle.Files.elems, Len(bundle.Files.elems))

SummaryMatchesFilesWitness ==
    /\ HasBundle
    /\ Len(bundle.Files.elems) = 2
    /\ bundle.Files.elems[1].SizeBytes # bundle.Files.elems[2].SizeBytes
    /\ bundle.Summary.TotalSize = 1210

\* The names of the entries of the root that are not directories.
RootFileNames ==
    { n \in Names : Exists(Join(rootPath, n))
                    /\ Entry(Join(rootPath, n)).kind # "dir" }

\* C2: a non-recursive build of a root directory records each immediate
\* child of the root that is not a directory, once, and nothing else: no
\* file inside a subdirectory has a record.
NonRecursiveOnlyChildren ==
    (HasBundle /\ ~recursive /\ RootIsDir) =>
        /\ { f.RelativePath : f \in
               { bundle.Files.elems[i] : i \in 1..Len(bundle.Files.elems) } }
             = RootFileNames
        /\ Len(bundle.Files.elems) = Cardinality(RootFileNames)
        /\ \A i \in 1..Len(bundle.Files.elems) :
             bundle.Files.elems[i].Path
                = Join(rootPath, bundle.Files.elems[i].RelativePath)

\* A file lies in a subdirectory of the root.
NonRecursiveOnlyChildrenWitness ==
    /\ HasBundle
    /\ ~recursive
    /\ RootIsDir
    /\ \E d \in Names, n \in Names :
         /\ IsDir(Join(rootPath, d))
         /\ Exists(Join(Join(rootPath, d), n))
         /\ Entry(Join(Join(rootPath, d), n)).kind = "file"

\* C3 (as claimed): BuildBundle fails only when the root itself cannot be
\* stat'ed or listed; a failure at an entry below a sound root does not fail
\* the build.
EntryFailureTolerated ==
    (Returned /\ LstatOK(rootPath)
        /\ (RootIsDir => Entry(rootPath).mode = "ok"))
      => (pc # "failed" /\ HasBundle)

\* The root is missing, cannot be stat'ed, or is a directory that cannot be
\* listed.
RootUnusable ==
    \/ ~LstatOK(rootPath)
    \/ (RootIsDir /\ ~ReadDirOK(rootPath))

\* C4 (as claimed): BuildBundle fails, with an error and no bundle, whenever
\* the root is missing, is not a directory, or cannot be read.
RootNotDirFails ==
    (Returned /\ (RootUnusable \/ ~RootIsDir)) =>
        (~HasBundle /\ ~err.isNil)

\* C4 (amended): BuildBundle fails, with an error and no bundle and nothing
\* written, whenever the root is missing, cannot be stat'ed, or is a
\* directory that cannot be listed; a root that is a regular file is built
\* into a bundle of exactly one record, with RelativePath ".".
RootUnusableFails ==
    /\ (Returned /\ RootUnusable) =>
          (~HasBundle /\ ~err.isNil /\ ~output.written
             /\ pc \in {"failed", "exit1"})
    /\ (Returned /\ LstatOK(rootPath) /\ ~RootIsDir) =>
          /\ HasBundle
          /\ err.isNil
          /\ Len(bundle.Files.elems) = 1
          /\ bundle.Files.elems[1].Path = rootPath
          /\ bundle.Files.elems[1].RelativePath = <<".">>

RootUnusableFailsWitness ==
    /\ pc = "failed"
    /\ RootIsDir
    /\ ~ReadDirOK(rootPath)
    /\ LstatOK(rootPath)

\* strings.ToLower on the modelled characters.
LowerChar(c) ==
    IF Ascii[c] \in 65..90
    THEN CHOOSE d \in DOMAIN Ascii : Ascii[d] = Ascii[c] + 32
    ELSE c

ToLower(s) == [i \in 1..Len(s) |-> LowerChar(s[i])]

\* C5 (as claimed): a classified path has the MIME type and the category of
\* every path whose extension differs from its own only in letter case, and
\* an extension in neither table is application/octet-stream and binary.
ClassifyIgnoresCase ==
    (cmime # "") =>
        \A q \in ClassifyInputs :
            ToLower(Ext(q)) = ToLower(Ext(cpath)) =>
                /\ detectMIME(q) = cmime
                /\ classifyType(Ext(q)) = ctype

\* The identifiers the --format flag documents.
RegisteredFormats == {"json", "xml", "shon"}

\* C6 (as claimed): a run whose --format names no registered format writes
\* no serialized bundle.
UnknownFormatWritesNothing ==
    (format \notin RegisteredFormats) => ~output.written

\* C7 (as claimed): in a bundle with at least one file, Summary.LargestFile
\* names the first record of Files whose TokenCount is the maximum.
LargestFileIsFirstMax ==
    (HasBundle /\ Len(bundle.Files.elems) >= 1) =>
        \E i \in 1..Len(bundle.Files.elems) :
            LET f == bundle.Files.elems[i] IN
            /\ bundle.Summary.LargestFile \in {f.Path, f.RelativePath, f.Name}
            /\ \A j \in 1..Len(bundle.Files.elems) :
                 bundle.Files.elems[j].TokenCount <= f.TokenCount
            /\ \A j \in 1..(i - 1) :
                 bundle.Files.elems[j].TokenCount < f.TokenCount

\* The root is a directory that can be read and has no entries.
RootIsEmptyDir ==
    /\ RootIsDir
    /\ LstatOK(rootPath)
    /\ ReadDirOK(rootPath)
    /\ \A n \in Names : ~Exists(Join(rootPath, n))

\* C8 (as claimed): the build of an empty root directory returns a bundle
\* whose Files is the empty sequence, not nil, with TotalFiles and AvgTokens
\* both 0.
EmptyDirGivesEmptyFiles ==
    (Returned /\ RootIsEmptyDir) =>
        /\ HasBundle
        /\ ~bundle.Files.isNil
        /\ bundle.Files.elems = <<>>
        /\ bundle.Summary.TotalFiles = 0
        /\ bundle.Summary.AvgTokens = 0

\* The root holds a.md, of 200 words, and b.bin, of 10 bytes, and nothing
\* else.
ScenarioTree ==
    /\ RootIsDir
    /\ Entry(rootPath).mode = "ok"
    /\ LstatOK(rootPath)
    /\ { n \in Names : Exists(Join(rootPath, n)) }
         = { <<"a", ".", "m", "d">>, <<"b", ".", "b", "i", "n">> }
    /\ LET a == Entry(Join(rootPath, <<"a", ".", "m", "d">>))
           b == Entry(Join(rootPath, <<"b", ".", "b", "i", "n">>))
       IN  /\ a.kind = "file" /\ a.words = 200
           /\ b.kind = "file" /\ b.size = 10

\* C9 (as claimed): the non-recursive build of that tree has two records;
\* the one of a.md has a Document with a Section and a TokenCount of about
\* 150, the one of b.bin has no Document and the category binary.
ScenarioHasDocumentAndTokens ==
    (Returned /\ ~recursive /\ ScenarioTree) =>
        /\ HasBundle
        /\ Len(bundle.Files.elems) = 2
        /\ bundle.Summary.TotalFiles = 2
        /\ \E i, j \in 1..Len(bundle.Files.elems) :
             LET a == bundle.Files.elems[i]
                 b == bundle.Files.elems[j]
             IN  /\ a.Name = <<"a", ".", "m", "d">>
                 /\ ~a.Document.isNil
                 /\ Len(a.Document.Sections) >= 1
                 /\ a.TokenCount \in 140..160
                 /\ b.Name = <<"b", ".", "b", "i", "n">>
                 /\ b.Document.isNil
                 /\ b.FileType = "binary"

\* p is the root or lies below it.
Under(p) ==
    \/ p = rootPath
    \/ /\ Len(p) > Len(rootPath) + 1
       /\ SubSeq(p, 1, Len(rootPath) + 1) = rootPath \o <<"/">>

\* The entries of the subtree of the root that are not directories.
SubtreeFiles ==
    { e.path : e \in { x \in fs : x.kind # "dir" /\ Under(x.path) } }

\* No entry of the subtree of the root fails: the root can be stat'ed and
\* every directory of the subtree can be listed and searched.
NoEntryFails ==
    /\ LstatOK(rootPath)
    /\ \A e \in fs : (e.kind = "dir" /\ Under(e.path)) => e.mode = "ok"

\* Walk order of two paths: element by element, by the byte order of the
\* names; a separator ends an element, so it sorts before every character.
RECURSIVE WalksBefore(_, _)
WalksBefore(p, q) ==
    LET key(c) == IF c = "/" THEN 0 ELSE Ascii[c] IN
    IF q = <<>> THEN FALSE
    ELSE IF p = <<>> THEN TRUE
    ELSE IF key(p[1]) < key(q[1]) THEN TRUE
    ELSE IF key(p[1]) > key(q[1]) THEN FALSE
    ELSE WalksBefore(Tail(p), Tail(q))

\* C10: a recursive build in which no entry fails returns a bundle whose
\* Files has exactly one record for every entry of the subtree that is not
\* a directory, none for a directory, in walk order, so that the sequence of
\* RelativePath values is fixed by the tree.
RecursiveListsSubtreeInWalkOrder ==
    (Returned /\ recursive /\ NoEntryFails) =>
        /\ HasBundle
        /\ Len(bundle.Files.elems) = Cardinality(SubtreeFiles)
        /\ { bundle.Files.elems[i].Path : i \in 1..Len(bundle.Files.elems) }
             = SubtreeFiles
        /\ \A i \in 1..Len(bundle.Files.elems) :
             LET f == bundle.Files.elems[i] IN
             IF f.Path = rootPath
             THEN f.RelativePath = <<".">>
             ELSE Join(rootPath, f.RelativePath) = f.Path
        /\ \A i, j \in 1..Len(bundle.Files.elems) :
             i < j => WalksBefore(bundle.Files.elems[i].RelativePath,
                                  bundle.Files.elems[j].RelativePath)

\* Two files of one directory of the subtree are recorded.
RecursiveListsSubtreeInWalkOrderWitness ==
    /\ HasBundle
    /\ recursive
    /\ NoEntryFails
    /\ Len(bundle.Files.elems) = 2
    /\ bundle.Files.elems[1].RelativePath = <<"a", ".", "m", "d">>
====
